---- MODULE Spec2Model ----
(***************************************************************************)
(* A model of the QMASM back-end core: the symbol table (SymbolMapping),   *)
(* edge canonicalization, Chimera topology inference, dw coupler           *)
(* numbering and the embeddability filter.                                 *)
(*                                                                         *)
(* A symbol is a sequence of tokens: "p!next.c" is <<"p", "!next.", "c">>. *)
(* Python's None is the one-token sequence None.                           *)
(***************************************************************************)
EXTENDS Integers, Sequences, FiniteSets, TLC

VARIABLES sym2num, num2syms, next_sym_num, status, last, aliased, highest

symvars == <<sym2num, num2syms, next_sym_num, status, last, aliased, highest>>

VARIABLES strs, canon1, canon2, cpc

canonvars == <<strs, canon1, canon2, cpc>>

VARIABLES shape, solver, topology, ids, addr

chimeravars == <<shape, solver, topology, ids, addr>>

VARIABLES adj, edges, chain, report

embedvars == <<adj, edges, chain, report>>

VARIABLES dwjob, dwres

dwvars == <<dwjob, dwres>>

VARIABLES listing, relisted, nominal, inferred

listvars == <<listing, relisted, nominal, inferred>>

vars == <<symvars, canonvars, chimeravars, embedvars, dwvars, listvars>>

(***************************************************************************)
(* Bounds and input sets                                                   *)
(***************************************************************************)
\* new_symbol is called only while next_sym_num is below MaxIndex.
MaxIndex == 4

\* The longest symbol sequence handed to replace_all.
MaxRename == 2

\* Strength maps are over qubits 0..NumQubits-1 and hold at most MaxEntries
\* entries.
NumQubits == 3

MaxEntries == 3

Weights == {-1, 0, 1}

\* Synthetic Chimera graphs have 1..MaxL qubits per shore, 1..MaxM columns
\* and 1..MaxN rows of cells.
MaxL == 4

MaxM == 2

MaxN == 2

\* The embeddability filter runs against Chimera graphs of at most
\* MaxHwEdges couplers.
MaxHwEdges == 9

\* dw output is asked for against Chimera graphs of one qubit per shore
\* and 1..MaxDwSide columns and rows of cells, for problems over qubits
\* 0..MaxDwQubits-1.
MaxDwSide == 2

MaxDwQubits == 4

\* maybe_embeddable is also run on arbitrary logical graphs over nodes
\* 0..MaxLogicalNodes-1 and on stars of up to MaxStarDegree leaves, against
\* Chimera graphs of one row of 1..MaxCols cells with 1..MaxShore qubits per
\* shore.
MaxLogicalNodes == 4

MaxStarDegree == 6

MaxShore == 4

MaxCols == 2

\* chimera_topology is also given every list of 1..MaxCouplers couplers
\* between qubits 0..MaxListQubits-1, in every order.
MaxCouplers == 3

MaxListQubits == 4

None == <<"<None>">>

PlainSyms == {<<"a">>, <<"b">>, <<"c">>}

\* The symbols replace_all is called with.
RenameSyms == {<<"a">>, <<"b">>}

NextSyms == {<<"p", "!next.", "c">>}

Prefixes == {None, <<"p">>}

NextPrefixes == {None, <<"q">>}

Range(f) == {f[x] : x \in DOMAIN f}

Max(S) == CHOOSE x \in S : \A y \in S : y <= x

Min(S) == CHOOSE x \in S : \A y \in S : x <= y

SeqsUpTo(S, n) == UNION {[1..k -> S] : k \in 0..n}

(***************************************************************************)
(* SymbolMapping: a table is [sym2num, num2syms, next_sym_num]             *)
(***************************************************************************)
EmptyMap == [x \in {} |-> 0]

Table == [sym2num |-> sym2num, num2syms |-> num2syms, next_sym_num |-> next_sym_num]

EmptyTable == [sym2num |-> EmptyMap, num2syms |-> EmptyMap, next_sym_num |-> 0]

\* Extend or overwrite function f at key k.
Put(f, k, v) == [x \in DOMAIN f \cup {k} |-> IF x = k THEN v ELSE f[x]]

\* del f[k]
Del(f, k) == [x \in DOMAIN f \ {k} |-> f[x]]

\* SymbolMapping.new_symbol, for a symbol that is not defined yet.
new_symbol(t, sym) ==
    [sym2num |-> Put(t.sym2num, sym, t.next_sym_num),
     num2syms |-> Put(t.num2syms, t.next_sym_num, {sym}),
     next_sym_num |-> t.next_sym_num + 1]

\* SymbolMapping.to_number
to_number(t, sym) == t.sym2num[sym]

\* "sym in sym2num": the KeyError test of the try/except lookups.
Defined(t, sym) == sym \in DOMAIN t.sym2num

\* "!next." in sym
HasNext(sym) == \E i \in 1..Len(sym) : sym[i] = "!next."

\* str.replace(pat, rep): every non-overlapping occurrence, left to right.
RECURSIVE Replace(_, _, _)
Replace(s, pat, rep) ==
    IF Len(s) < Len(pat) THEN s
    ELSE IF SubSeq(s, 1, Len(pat)) = pat
         THEN rep \o Replace(SubSeq(s, Len(pat) + 1, Len(s)), pat, rep)
         ELSE <<Head(s)>> \o Replace(Tail(s), pat, rep)

\* The lookup-or-define of one symbol at the head of alias: the table after
\* it, the symbol's number and the number of new definitions made.
AliasLookup(t, sym) ==
    IF Defined(t, sym)
    THEN [t |-> t, num |-> t.sym2num[sym], new |-> 0]
    ELSE [t |-> new_symbol(t, sym), num |-> t.next_sym_num, new |-> 1]

\* "Regenerate sym2num from num2syms."
Regenerate(n2s) ==
    [s \in UNION Range(n2s) |-> CHOOSE n \in DOMAIN n2s : s \in n2s[n]]

\* AliasMerge with the regeneration of sym2num left out.
AliasMergeStale(t, num1, num2) ==
    LET new_num == Min({num1, num2})
        old_num == Max({num1, num2})
        n2s == Del(Put(t.num2syms, new_num,
                       t.num2syms[new_num] \cup t.num2syms[old_num]), old_num)
    IN [sym2num |-> t.sym2num, num2syms |-> n2s, next_sym_num |-> t.next_sym_num]

\* AliasMerge with min and max exchanged: the smaller number is retired.
AliasMergeIntoLarger(t, num1, num2) ==
    LET new_num == Max({num1, num2})
        old_num == Min({num1, num2})
        n2s == Del(Put(t.num2syms, new_num,
                       t.num2syms[new_num] \cup t.num2syms[old_num]), old_num)
    IN [sym2num |-> Regenerate(n2s), num2syms |-> n2s,
        next_sym_num |-> t.next_sym_num]

\* The merge at the end of alias: the larger number's symbols move to the
\* smaller number, the larger number is deleted, sym2num is rebuilt.
AliasMerge(t, num1, num2) ==
    LET new_num == Min({num1, num2})
        old_num == Max({num1, num2})
        n2s == Del(Put(t.num2syms, new_num,
                       t.num2syms[new_num] \cup t.num2syms[old_num]), old_num)
    IN [sym2num |-> Regenerate(n2s), num2syms |-> n2s,
        next_sym_num |-> t.next_sym_num]

\* alias without the n_new_defs test: pre-existing symbols are merged too.
aliasMergesDefined(t, sym1, sym2) ==
    LET r1 == AliasLookup(t, sym1)
        r2 == AliasLookup(r1.t, sym2)
    IN IF r1.num = r2.num
       THEN [t |-> r2.t, outcome |-> "ok", ret |-> r1.num]
       ELSE [t |-> AliasMerge(r2.t, r1.num, r2.num), outcome |-> "ok",
             ret |-> Min({r1.num, r2.num})]

\* SymbolMapping.alias: the table it leaves, its outcome and return value.
alias(t, sym1, sym2) ==
    LET r1 == AliasLookup(t, sym1)
        r2 == AliasLookup(r1.t, sym2)
        n_new_defs == r1.new + r2.new
    IN IF r1.num = r2.num
       THEN [t |-> r2.t, outcome |-> "ok", ret |-> r1.num]
       ELSE IF n_new_defs = 0
            THEN [t |-> r2.t, outcome |-> "abend", ret |-> -1]
            ELSE [t |-> AliasMerge(r2.t, r1.num, r2.num), outcome |-> "ok",
                  ret |-> Min({r1.num, r2.num})]

\* overwrite_with with the counter set to the number of numbers in use.
overwriteCountsNumbers(s2n) ==
    [sym2num |-> s2n,
     num2syms |-> [n \in Range(s2n) |-> {s \in DOMAIN s2n : s2n[s] = n}],
     next_sym_num |-> Cardinality(Range(s2n))]

\* SymbolMapping.overwrite_with: both maps and the counter from a given
\* symbol-to-number map.
overwrite_with(s2n) ==
    [sym2num |-> s2n,
     num2syms |-> [n \in Range(s2n) |-> {s \in DOMAIN s2n : s2n[s] = n}],
     next_sym_num |-> IF Range(s2n) = {} THEN 0 ELSE Max(Range(s2n)) + 1]

\* The first loop of replace_all on the copy of sym2num: each symbol of
\* before_syms is looked up, recorded and deleted; a missing one abends.
RECURSIVE ReplaceLoop(_, _, _)
ReplaceLoop(s2n, before_syms, before_nums) ==
    IF before_syms = <<>>
    THEN [ok |-> TRUE, s2n |-> s2n, before_nums |-> before_nums]
    ELSE IF Head(before_syms) \notin DOMAIN s2n
         THEN [ok |-> FALSE, s2n |-> s2n, before_nums |-> before_nums]
         ELSE ReplaceLoop(Del(s2n, Head(before_syms)), Tail(before_syms),
                          Append(before_nums, s2n[Head(before_syms)]))

\* The second loop of replace_all: zip stops at the shorter sequence, and a
\* later assignment to the same symbol overwrites an earlier one.
RECURSIVE ZipAssign(_, _, _)
ZipAssign(s2n, after_syms, before_nums) ==
    IF after_syms = <<>> \/ before_nums = <<>>
    THEN s2n
    ELSE ZipAssign(Put(s2n, Head(after_syms), Head(before_nums)),
                   Tail(after_syms), Tail(before_nums))

\* replace_all working on self.sym2num itself, not on a copy: the deletions
\* made before the missing symbol stay.
replaceAllInPlace(t, before_syms, after_syms) ==
    LET r == ReplaceLoop(t.sym2num, before_syms, <<>>)
    IN IF r.ok
       THEN [t |-> overwrite_with(ZipAssign(r.s2n, after_syms, r.before_nums)),
             outcome |-> "ok"]
       ELSE [t |-> [sym2num |-> r.s2n, num2syms |-> t.num2syms,
                    next_sym_num |-> t.next_sym_num],
             outcome |-> "abend"]

\* SymbolMapping.replace_all: the table it leaves and its outcome.
replace_all(t, before_syms, after_syms) ==
    LET r == ReplaceLoop(t.sym2num, before_syms, <<>>)
    IN IF r.ok
       THEN [t |-> overwrite_with(ZipAssign(r.s2n, after_syms, r.before_nums)),
             outcome |-> "ok"]
       ELSE [t |-> t, outcome |-> "abend"]

\* The number of allocations a call of alias makes.
AliasAllocs(t, sym1, sym2) ==
    AliasLookup(t, sym1).new + AliasLookup(AliasLookup(t, sym1).t, sym2).new

\* The numbers alias hands out, in order.
AliasLog(t, sym1, sym2) ==
    LET r1 == AliasLookup(t, sym1)
        r2 == AliasLookup(r1.t, sym2)
    IN (IF r1.new = 1 THEN <<r1.num>> ELSE <<>>)
       \o (IF r2.new = 1 THEN <<r2.num>> ELSE <<>>)

(***************************************************************************)
(* canonicalize_strengths.  A map of strengths is a function from pairs    *)
(* <<q1, q2>> to weights; the weights are integers (as floats they add     *)
(* exactly).                                                               *)
(***************************************************************************)
\* The weight strs adds to new_strs[key]: 0 from a missing, self or zero
\* entry.
Contribution(s, q1, q2) ==
    IF <<q1, q2>> \in DOMAIN s /\ q1 # q2 /\ s[<<q1, q2>>] # 0
    THEN s[<<q1, q2>>] ELSE 0

\* The keys of strs that reach "new_strs[(q1, q2)] += wt".
Kept(s) == {k \in DOMAIN s : k[1] # k[2] /\ s[k] # 0}

\* canonicalize_strengths without "q1, q2 = q2, q1".
canonicalizeNoSwap(s) ==
    [k \in Kept(s) |-> Contribution(s, k[1], k[2])]

\* canonicalize_strengths: new_strs has a key for every kept entry, under
\* (min, max), and holds the sum of the weights added under it.
canonicalize_strengths(s) ==
    [k \in {<<Min({e[1], e[2]}), Max({e[1], e[2]})>> : e \in Kept(s)} |->
        Contribution(s, k[1], k[2]) + Contribution(s, k[2], k[1])]

(***************************************************************************)
(* chimera_topology and coupler_number                                     *)
(***************************************************************************)
Abs(x) == IF x < 0 THEN -x ELSE x

\* The deltas list of chimera_topology.
Deltas(couplers) == [i \in 1..Len(couplers) |-> Abs(couplers[i][1] - couplers[i][2])]

\* delta_tallies[d]
Tally(deltas, d) == Cardinality({i \in 1..Len(deltas) : deltas[i] = d})

\* The keys of delta_tallies in insertion order: each delta at its first
\* occurrence.
RECURSIVE FirstOccurrences(_, _)
FirstOccurrences(deltas, seen) ==
    IF deltas = <<>> THEN <<>>
    ELSE IF Head(deltas) \in seen
         THEN FirstOccurrences(Tail(deltas), seen)
         ELSE <<Head(deltas)>> \o FirstOccurrences(Tail(deltas), seen \cup {Head(deltas)})

\* sorted(..., key=tally, reverse=True): a stable sort, so deltas of equal
\* tally keep their insertion order.
RECURSIVE SortByTally(_, _)
SortByTally(keys, deltas) ==
    IF keys = <<>> THEN <<>>
    ELSE LET top == Max({Tally(deltas, keys[i]) : i \in 1..Len(keys)})
             at == Min({i \in 1..Len(keys) : Tally(deltas, keys[i]) = top})
         IN <<keys[at]>> \o
            SortByTally(SubSeq(keys, 1, at - 1) \o SubSeq(keys, at + 1, Len(keys)),
                        deltas)

\* The loop over sorted_tallies[1:]: the first delta above 2*L gives M.
RECURSIVE FirstStride(_, _)
FirstStride(rest, L) ==
    IF rest = <<>> THEN 1
    ELSE IF Head(rest) > 2 * L THEN Head(rest) \div (2 * L)
         ELSE FirstStride(Tail(rest), L)

\* chimera_topology of a solver with num_qubits and a non-empty coupler list.
chimera_topology(slv) ==
    LET deltas == Deltas(slv.couplers)
        sorted_tallies == SortByTally(FirstOccurrences(deltas, {}), deltas)
        L == sorted_tallies[1]
        M == FirstStride(Tail(sorted_tallies), L)
        N == (slv.num_qubits + 2 * L * M - 1) \div (2 * L * M)
    IN <<L, M, N>>

\* linear_index_to_chimera of one index: row, column, shore, offset in a
\* lattice of n columns of cells with shores of t qubits.
linear_index_to_chimera(q, m, n, t) ==
    <<q \div (n * 2 * t), (q % (n * 2 * t)) \div (2 * t), (q % (2 * t)) \div t, q % t>>

\* coupler_number: [ok |-> TRUE, id |-> n], or ok = FALSE for IndexError.
coupler_number(M, N, L, q1, q2) ==
    LET qmin == Min({q1, q2})
        qmax == Max({q1, q2})
        cmin == linear_index_to_chimera(qmin, M, N, L)
        cmax == linear_index_to_chimera(qmax, M, N, L)
        imin == cmin[1]
        jmin == cmin[2]
        umin == cmin[3]
        kmin == cmin[4]
        imax == cmax[1]
        jmax == cmax[2]
        umax == cmax[3]
        kmax == cmax[4]
        cell_links == L * L
        total_intra == cell_links * M * N
        total_horiz == (M - 1) * N * L
    IN IF imin = imax /\ jmin = jmax /\ umin # umax
       THEN [ok |-> TRUE, id |-> cell_links * (imin * M + jmin) + kmin * L + kmax]
       ELSE IF imin = imax /\ jmin + 1 = jmax /\ umin = umax /\ kmin = kmax
       THEN [ok |-> TRUE, id |-> total_intra + L * (imin * (M - 1) + jmin) + kmin]
       ELSE IF imin + 1 = imax /\ jmin = jmax /\ umin = umax /\ kmin = kmax
       THEN [ok |-> TRUE, id |-> total_intra + total_horiz + L * (imin * M + jmin) + kmin]
       ELSE [ok |-> FALSE, id |-> 0]

(***************************************************************************)
(* The synthetic Chimera graph of L qubits per shore, M columns and N rows *)
(* of cells: qubit (row, col, u, k) has index row*2LM + col*2L + u*L + k;  *)
(* shore 0 couples to the cell below, shore 1 to the cell to the right.    *)
(***************************************************************************)
\* The couplers from qubit q to qubits of larger index, in index order.
CouplersFrom(L, M, N, q) ==
    LET row == q \div (2 * L * M)
        col == (q % (2 * L * M)) \div (2 * L)
        u == (q % (2 * L)) \div L
        k == q % L
    IN IF u = 0
       THEN [k2 \in 1..L |-> <<q, q - k + L + k2 - 1>>]
            \o (IF row + 1 < N THEN <<<<q, q + 2 * L * M>>>> ELSE <<>>)
       ELSE IF col + 1 < M THEN <<<<q, q + 2 * L>>>> ELSE <<>>

RECURSIVE CouplersUpTo(_, _, _, _)
CouplersUpTo(L, M, N, q) ==
    IF q < 0 THEN <<>>
    ELSE CouplersUpTo(L, M, N, q - 1) \o CouplersFrom(L, M, N, q)

\* The solver properties of the synthetic graph.
ChimeraSolver(L, M, N) ==
    [num_qubits |-> 2 * L * M * N,
     couplers |-> CouplersUpTo(L, M, N, 2 * L * M * N - 1)]

\* q1 and q2 are joined by a coupler of the solver.
Adjacent(slv, q1, q2) ==
    \E i \in 1..Len(slv.couplers) : {slv.couplers[i][1], slv.couplers[i][2]} = {q1, q2}

(***************************************************************************)
(* output_dw.  A job is the solver and the problem (already a QUBO): its   *)
(* weights list and its strengths map.  The result is the exit status, the *)
(* line on stderr and the lines written to the output file; cause names    *)
(* the exception that led to abend.                                        *)
(***************************************************************************)
progname == "qmasm"

\* abend(str): "progname: str" on stderr and exit status 1.
abend(str) == [exit |-> 1, stderr |-> <<progname, ": ", str>>]

\* chimera_topology raises NonChimera: the solver has no num_qubits.
NonChimera(slv) == ~slv.has_num_qubits

\* The strengths that reach coupler_number in the loop of output_dw.
NonzeroStrengths(strengths) == {sp \in DOMAIN strengths : strengths[sp] # 0}

\* output_dw(outfile, problem) with the given solver.
output_dw(job) ==
    IF NonChimera(job.solver)
    THEN [done |-> TRUE, cause |-> "NonChimera", file |-> {},
          out |-> abend("dw output is supported only for Chimera-graph topologies")]
    ELSE LET LMN == chimera_topology(job.solver)
             L == LMN[1]
             M == LMN[2]
             N == LMN[3]
             wdata == {<<"Q", q - 1, job.weights[q]>> :
                          q \in {q \in 1..Len(job.weights) : job.weights[q] # 0}}
             nz == NonzeroStrengths(job.strengths)
             sdata == {<<"C", coupler_number(M, N, L, sp[1], sp[2]).id, job.strengths[sp]>> :
                          sp \in nz}
         IN IF \E sp \in nz : ~coupler_number(M, N, L, sp[1], sp[2]).ok
            THEN [done |-> TRUE, cause |-> "IndexError", file |-> {},
                  out |-> abend("dw output is supported only for Chimera-graph topologies")]
            ELSE [done |-> TRUE, cause |-> "none", file |-> wdata \cup sdata,
                  out |-> [exit |-> 0, stderr |-> <<>>]]

(***************************************************************************)
(* maybe_embeddable.  An edge list is a set of pairs <<n1, n2>>.           *)
(***************************************************************************)
\* edges_to_neighbor_list: each node touched by a pair, with its peers.
edges_to_neighbor_list(pairs) ==
    [n \in {e[1] : e \in pairs} \cup {e[2] : e \in pairs} |->
        {e[2] : e \in {x \in pairs : x[1] = n}} \cup {e[1] : e \in {x \in pairs : x[2] = n}}]

\* math.ceil(float(a)/float(b)) for positive integers
Ceil(a, b) == (a + b - 1) \div b

\* The sum of f over S.
RECURSIVE Sum(_, _)
Sum(f, S) ==
    IF S = {} THEN 0
    ELSE LET x == CHOOSE x \in S : TRUE IN f[x] + Sum(f, S \ {x})

\* The extras loop with "- 1" forgotten.
ExtrasNoMinusOne(graph_needed, max_degree_avail) ==
    Sum([n \in DOMAIN graph_needed |->
            IF Cardinality(graph_needed[n]) > max_degree_avail
            THEN Ceil(Cardinality(graph_needed[n]), max_degree_avail)
            ELSE 0],
        DOMAIN graph_needed)

\* The extras loop with the quotient rounded down.
ExtrasFloor(graph_needed, max_degree_avail) ==
    Sum([n \in DOMAIN graph_needed |->
            IF Cardinality(graph_needed[n]) > max_degree_avail
            THEN (Cardinality(graph_needed[n]) \div max_degree_avail) - 1
            ELSE 0],
        DOMAIN graph_needed)

\* The extras loop: ceil(deg/max_degree_avail) - 1 for each node whose
\* degree exceeds max_degree_avail.
Extras(graph_needed, max_degree_avail) ==
    Sum([n \in DOMAIN graph_needed |->
            IF Cardinality(graph_needed[n]) > max_degree_avail
            THEN Ceil(Cardinality(graph_needed[n]), max_degree_avail) - 1
            ELSE 0],
        DOMAIN graph_needed)

\* The embed decision with >= for >.
EmbedStrict(num_nodes_needed, num_nodes_avail, num_edges_needed, num_edges_avail, extras) ==
    /\ ~(num_nodes_needed + extras >= num_nodes_avail)
    /\ ~(num_edges_needed + extras >= num_edges_avail)

\* The embed decision without the test of the edges.
EmbedNodesOnly(num_nodes_needed, num_nodes_avail, num_edges_needed, num_edges_avail, extras) ==
    ~(num_nodes_needed + extras > num_nodes_avail)

\* embed: False when more nodes or more edges are needed than available.
Embed(num_nodes_needed, num_nodes_avail, num_edges_needed, num_edges_avail, extras) ==
    /\ ~(num_nodes_needed + extras > num_nodes_avail)
    /\ ~(num_edges_needed + extras > num_edges_avail)

\* maybe_embeddable(edges, adj) for a non-empty adj: the tuple it returns.
maybe_embeddable(es, ad) ==
    LET graph_needed == edges_to_neighbor_list(es)
        num_edges_needed == Cardinality(es)
        num_nodes_needed == Cardinality(DOMAIN graph_needed)
        graph_avail == edges_to_neighbor_list(ad)
        num_edges_avail == Cardinality(ad)
        num_nodes_avail == Cardinality(DOMAIN graph_avail)
        max_degree_avail == Max({Cardinality(graph_avail[n]) : n \in DOMAIN graph_avail})
        extras == Extras(graph_needed, max_degree_avail)
        degs == {Cardinality(graph_needed[n]) : n \in DOMAIN graph_needed}
    IN [done |-> TRUE,
        embed |-> Embed(num_nodes_needed, num_nodes_avail,
                        num_edges_needed, num_edges_avail, extras),
        extras |-> extras,
        nodes |-> <<num_nodes_needed, num_nodes_avail>>,
        edges |-> <<num_edges_needed, num_edges_avail>>,
        hist |-> [d \in degs |->
                     Cardinality({n \in DOMAIN graph_needed :
                                     Cardinality(graph_needed[n]) = d})]]

(***************************************************************************)
(* The symbol table as a state machine.  last describes the latest call:   *)
(* its operation, arguments a and b, outcome, return value and the numbers *)
(* new_symbol handed out during it; highest is the largest number handed   *)
(* out so far, aliased the pairs given to alias calls that returned.       *)
(***************************************************************************)
Call(op, a, b, outcome, ret, news) ==
    [op |-> op, a |-> a, b |-> b, outcome |-> outcome, ret |-> ret, news |-> news]

SetTable(t) ==
    /\ sym2num' = t.sym2num
    /\ num2syms' = t.num2syms
    /\ next_sym_num' = t.next_sym_num

InitSym ==
    /\ sym2num = EmptyMap
    /\ num2syms = EmptyMap
    /\ next_sym_num = 0
    /\ status = "running"
    /\ last = Call("init", <<>>, <<>>, "ok", -1, <<>>)
    /\ aliased = {}
    /\ highest = -1

\* define: SymbolMapping.new_symbol(sym)
Define ==
    \E sym \in PlainSyms :
        /\ status = "running"
        /\ IF Defined(Table, sym)
           THEN /\ last' = Call("new_symbol", <<sym>>, <<>>, "raise", -1, <<>>)
                /\ UNCHANGED <<sym2num, num2syms, next_sym_num, highest>>
           ELSE /\ next_sym_num < MaxIndex
                /\ SetTable(new_symbol(Table, sym))
                /\ highest' = Max({highest, next_sym_num})
                /\ last' = Call("new_symbol", <<sym>>, <<>>, "ok", next_sym_num,
                                <<next_sym_num>>)
        /\ UNCHANGED <<status, aliased>>

\* resolveOrDefine: symbol_to_number(sym, prefix, next_prefix)
ResolveOrDefine ==
    \E sym \in PlainSyms \cup NextSyms, prefix \in Prefixes, next_prefix \in NextPrefixes :
        /\ status = "running"
        /\ IF HasNext(sym) /\ (prefix = None \/ next_prefix = None)
           THEN /\ last' = Call("symbol_to_number", <<sym>>, <<prefix, next_prefix>>,
                                "RemainingNextException", -1, <<>>)
                /\ UNCHANGED <<sym2num, num2syms, next_sym_num, highest>>
           ELSE LET s == IF HasNext(sym)
                         THEN Replace(sym, prefix \o <<"!next.">>, next_prefix)
                         ELSE sym
                IN IF Defined(Table, s)
                   THEN /\ last' = Call("symbol_to_number", <<sym>>,
                                        <<prefix, next_prefix>>, "ok",
                                        to_number(Table, s), <<>>)
                        /\ UNCHANGED <<sym2num, num2syms, next_sym_num, highest>>
                   ELSE /\ next_sym_num < MaxIndex
                        /\ SetTable(new_symbol(Table, s))
                        /\ highest' = Max({highest, next_sym_num})
                        /\ last' = Call("symbol_to_number", <<sym>>,
                                        <<prefix, next_prefix>>, "ok", next_sym_num,
                                        <<next_sym_num>>)
        /\ UNCHANGED <<status, aliased>>

\* SymbolMapping.alias(sym1, sym2) on the table; abend ends the program.
AliasCall(sym1, sym2) ==
    LET r == alias(Table, sym1, sym2)
        news == AliasLog(Table, sym1, sym2)
    IN /\ status = "running"
       /\ next_sym_num + Len(news) <= MaxIndex
       /\ SetTable(r.t)
       /\ highest' = Max({highest} \cup Range(news))
       /\ last' = Call("alias", <<sym1>>, <<sym2>>, r.outcome, r.ret, news)
       /\ status' = IF r.outcome = "abend" THEN "aborted" ELSE "running"

\* alias, with the pairs of the calls that returned recorded in aliased.
Alias ==
    \E sym1 \in PlainSyms, sym2 \in PlainSyms :
        /\ AliasCall(sym1, sym2)
        /\ aliased' = IF last'.outcome = "ok" THEN aliased \cup {{sym1, sym2}}
                      ELSE aliased

\* alias, where renames make the record of aliased names meaningless.
AliasUnrecorded ==
    \E sym1 \in PlainSyms, sym2 \in PlainSyms :
        /\ AliasCall(sym1, sym2)
        /\ UNCHANGED aliased

\* replaceAll: SymbolMapping.replace_all(before_syms, after_syms); abend ends
\* the program.
ReplaceAll ==
    \E before_syms \in SeqsUpTo(RenameSyms, MaxRename),
       after_syms \in SeqsUpTo(RenameSyms, MaxRename) :
        LET r == replace_all(Table, before_syms, after_syms)
        IN /\ status = "running"
           /\ SetTable(r.t)
           /\ last' = Call("replace_all", before_syms, after_syms, r.outcome, -1, <<>>)
           /\ status' = IF r.outcome = "abend" THEN "aborted" ELSE "running"
           /\ UNCHANGED <<aliased, highest>>

(***************************************************************************)
(* The four operations that write the table, leaving the call record       *)
(* alone.                                                                  *)
(***************************************************************************)
\* The symbol-to-number maps overwrite_with is called with.
SymbolMaps ==
    UNION {[D -> 0..MaxIndex - 1] : D \in SUBSET PlainSyms}

\* SymbolMapping.new_symbol(sym): a defined symbol raises, nothing changes.
TableNewSymbol ==
    \E sym \in PlainSyms :
        /\ status = "running"
        /\ IF Defined(Table, sym)
           THEN UNCHANGED <<sym2num, num2syms, next_sym_num>>
           ELSE /\ next_sym_num < MaxIndex
                /\ SetTable(new_symbol(Table, sym))
        /\ UNCHANGED <<status, last, aliased, highest>>

\* SymbolMapping.alias(sym1, sym2)
TableAlias ==
    \E sym1 \in PlainSyms, sym2 \in PlainSyms :
        LET r == alias(Table, sym1, sym2)
        IN /\ status = "running"
           /\ next_sym_num + AliasAllocs(Table, sym1, sym2) <= MaxIndex
           /\ SetTable(r.t)
           /\ status' = IF r.outcome = "abend" THEN "aborted" ELSE "running"
           /\ UNCHANGED <<last, aliased, highest>>

\* SymbolMapping.replace_all(before_syms, after_syms)
TableReplaceAll ==
    \E before_syms \in SeqsUpTo(PlainSyms, MaxRename),
       after_syms \in SeqsUpTo(PlainSyms, MaxRename) :
        LET r == replace_all(Table, before_syms, after_syms)
        IN /\ status = "running"
           /\ SetTable(r.t)
           /\ status' = IF r.outcome = "abend" THEN "aborted" ELSE "running"
           /\ UNCHANGED <<last, aliased, highest>>

\* SymbolMapping.overwrite_with(sym2num)
TableOverwriteWith ==
    \E s2n \in SymbolMaps :
        /\ status = "running"
        /\ SetTable(overwrite_with(s2n))
        /\ UNCHANGED <<status, last, aliased, highest>>

(***************************************************************************)
(* canonicalize_strengths applied once and twice to a map of strengths     *)
(***************************************************************************)
StrengthMaps ==
    LET Pairs == (0..NumQubits - 1) \X (0..NumQubits - 1)
    IN UNION {[D -> Weights] : D \in {D \in SUBSET Pairs : Cardinality(D) <= MaxEntries}}

CanonIdle ==
    /\ strs = EmptyMap
    /\ canon1 = EmptyMap
    /\ canon2 = EmptyMap
    /\ cpc = "idle"

InitCanon ==
    /\ strs \in StrengthMaps
    /\ canon1 = EmptyMap
    /\ canon2 = EmptyMap
    /\ cpc = "input"

Canonicalize ==
    /\ cpc = "input"
    /\ canon1' = canonicalize_strengths(strs)
    /\ cpc' = "once"
    /\ UNCHANGED <<strs, canon2>>

CanonicalizeAgain ==
    /\ cpc = "once"
    /\ canon2' = canonicalize_strengths(canon1)
    /\ cpc' = "twice"
    /\ UNCHANGED <<strs, canon1>>

(***************************************************************************)
(* Topology inference and coupler numbering on a synthetic Chimera graph.  *)
(* shape is the (L, M, N) the graph was built from; <<>> stands for a      *)
(* result not computed yet.                                                *)
(***************************************************************************)
NotAddressed == [called |-> FALSE, q1 |-> 0, q2 |-> 0, ok |-> FALSE, id |-> 0]

ChimeraIdle ==
    /\ shape = <<>>
    /\ solver = [num_qubits |-> 0, couplers |-> <<>>]
    /\ topology = <<>>
    /\ ids = <<>>
    /\ addr = NotAddressed

InitChimera ==
    \E L \in 1..MaxL, M \in 1..MaxM, N \in 1..MaxN :
        /\ shape = <<L, M, N>>
        /\ solver = ChimeraSolver(L, M, N)
        /\ topology = <<>>
        /\ ids = <<>>
        /\ addr = NotAddressed

\* chimera_topology(solver)
InferTopology ==
    /\ topology = <<>>
    /\ topology' = chimera_topology(solver)
    /\ UNCHANGED <<shape, solver, ids, addr>>

\* coupler_number(M, N, L, q1, q2) for every coupler of the solver, as the
\* strengths loop of output_dw calls it.
NumberCouplers ==
    /\ ids = <<>>
    /\ ids' = [i \in 1..Len(solver.couplers) |->
                  coupler_number(shape[2], shape[3], shape[1],
                                 solver.couplers[i][1], solver.couplers[i][2])]
    /\ UNCHANGED <<shape, solver, topology, addr>>

\* coupler_number(M, N, L, q1, q2) for one pair of qubits.
Address ==
    \E q1 \in 0..solver.num_qubits - 1, q2 \in 0..solver.num_qubits - 1 :
        LET r == coupler_number(shape[2], shape[3], shape[1], q1, q2)
        IN /\ ~addr.called
           /\ addr' = [called |-> TRUE, q1 |-> q1, q2 |-> q2, ok |-> r.ok, id |-> r.id]
           /\ UNCHANGED <<shape, solver, topology, ids>>

(***************************************************************************)
(* The embeddability filter on the logical graphs that embed in a Chimera  *)
(* graph.  The logical graph starts as the hardware graph itself and is    *)
(* turned into any minor of it by deleting logical edges and by merging    *)
(* the two ends of a logical edge into one logical node; chain maps each   *)
(* hardware node to the logical node it stands for.                        *)
(***************************************************************************)
NoReport ==
    [done |-> FALSE, embed |-> FALSE, extras |-> 0, nodes |-> <<0, 0>>,
     edges |-> <<0, 0>>, hist |-> EmptyMap]

EmbedIdle ==
    /\ adj = {}
    /\ edges = {}
    /\ chain = EmptyMap
    /\ report = NoReport

InitEmbed ==
    \E L \in 1..MaxHwEdges, M \in 1..MaxHwEdges, N \in 1..MaxHwEdges :
        /\ L * L * M * N <= MaxHwEdges
        /\ Len(ChimeraSolver(L, M, N).couplers) <= MaxHwEdges
        /\ adj = Range(ChimeraSolver(L, M, N).couplers)
        /\ edges = adj
        /\ chain = [n \in 0..2 * L * M * N - 1 |-> n]
        /\ report = NoReport

\* A logical edge is dropped.
DeleteEdge ==
    \E e \in edges :
        /\ ~report.done
        /\ edges' = edges \ {e}
        /\ UNCHANGED <<adj, chain, report>>

\* The ends of a logical edge become one logical node, named by the smaller.
ContractEdge ==
    \E e \in edges :
        LET to(n) == IF n = e[2] THEN e[1] ELSE n
        IN /\ ~report.done
           /\ edges' = {<<Min({to(x[1]), to(x[2])}), Max({to(x[1]), to(x[2])})>> :
                           x \in edges \ {e}}
           /\ chain' = [n \in DOMAIN chain |-> to(chain[n])]
           /\ UNCHANGED <<adj, report>>

\* maybe_embeddable(edges, adj)
Analyze ==
    /\ ~report.done
    /\ report' = maybe_embeddable(edges, adj)
    /\ UNCHANGED <<adj, edges, chain>>

(***************************************************************************)
(* The embeddability filter on arbitrary logical graphs, embeddable or not *)
(***************************************************************************)
\* A node joined to each of d others.
Star(d) == {<<0, i>> : i \in 1..d}

LogicalGraphs ==
    SUBSET {e \in (0..MaxLogicalNodes - 1) \X (0..MaxLogicalNodes - 1) : e[1] < e[2]}
    \cup {Star(d) : d \in 1..MaxStarDegree}

HardwareGraphs ==
    {Range(ChimeraSolver(L, M, 1).couplers) : L \in 1..MaxShore, M \in 1..MaxCols}

InitFilter ==
    /\ adj \in HardwareGraphs
    /\ edges \in LogicalGraphs
    /\ chain = EmptyMap
    /\ report = NoReport

(***************************************************************************)
(* Two runs of the program that ask for dw output, each on a job of its    *)
(* own.                                                                    *)
(***************************************************************************)
\* A solver without num_qubits, as the Ising heuristic solver.
HeuristicSolver == [has_num_qubits |-> FALSE, num_qubits |-> 0, couplers |-> <<>>]

DwSolvers ==
    {[has_num_qubits |-> TRUE,
      num_qubits |-> ChimeraSolver(1, M, N).num_qubits,
      couplers |-> ChimeraSolver(1, M, N).couplers] :
         M \in 1..MaxDwSide, N \in 1..MaxDwSide}
    \cup {HeuristicSolver}

\* Strength maps of no entry or of one entry, between different qubits.
DwStrengths ==
    {EmptyMap} \cup
    UNION {[{sp} -> {0, 1}] :
              sp \in {sp \in (0..MaxDwQubits - 1) \X (0..MaxDwQubits - 1) : sp[1] # sp[2]}}

DwJobs == [solver : DwSolvers, weights : {<<>>, <<0, 1>>}, strengths : DwStrengths]

NoDwResult ==
    [done |-> FALSE, cause |-> "none", file |-> {}, out |-> [exit |-> 0, stderr |-> <<>>]]

Runs == {"first", "second"}

DwIdle ==
    /\ dwjob = [r \in Runs |-> [solver |-> HeuristicSolver, weights |-> <<>>,
                                 strengths |-> EmptyMap]]
    /\ dwres = [r \in Runs |-> NoDwResult]

InitDw ==
    /\ dwjob \in [Runs -> DwJobs]
    /\ dwres = [r \in Runs |-> NoDwResult]

\* One of the runs calls output_dw.
OutputDw ==
    \E r \in Runs :
        /\ ~dwres[r].done
        /\ dwres' = [dwres EXCEPT ![r] = output_dw(dwjob[r])]
        /\ UNCHANGED dwjob

(***************************************************************************)
(* chimera_topology on one list of couplers and on the same couplers in    *)
(* another order.                                                          *)
(***************************************************************************)
\* The couplers between qubits 0..MaxListQubits-1, smaller qubit first.
ListedCouplers ==
    {c \in (0..MaxListQubits - 1) \X (0..MaxListQubits - 1) : c[1] < c[2]}

NotInferred == [done |-> FALSE, first |-> <<>>, second |-> <<>>]

ListIdle ==
    /\ listing = <<>>
    /\ relisted = <<>>
    /\ nominal = 0
    /\ inferred = NotInferred

InitList ==
    /\ listing \in SeqsUpTo(ListedCouplers, MaxCouplers) \ {<<>>}
    /\ relisted = listing
    /\ nominal \in {MaxListQubits, 2 * MaxListQubits}
    /\ inferred = NotInferred

\* Two neighbours of the second list change places.
Relist ==
    \E i \in 1..Len(relisted) - 1 :
        /\ ~inferred.done
        /\ relisted' = [relisted EXCEPT ![i] = relisted[i + 1], ![i + 1] = relisted[i]]
        /\ UNCHANGED <<listing, nominal, inferred>>

\* chimera_topology(solver) for each of the two lists.
InferBoth ==
    /\ ~inferred.done
    /\ inferred' = [done |-> TRUE,
                    first |-> chimera_topology([num_qubits |-> nominal,
                                                couplers |-> listing]),
                    second |-> chimera_topology([num_qubits |-> nominal,
                                                 couplers |-> relisted])]
    /\ UNCHANGED <<listing, relisted, nominal>>

(***************************************************************************)
(* Specifications                                                          *)
(***************************************************************************)
NextDefAlias ==
    \/ Define /\ UNCHANGED <<canonvars, chimeravars, embedvars, dwvars, listvars>>
    \/ ResolveOrDefine /\ UNCHANGED <<canonvars, chimeravars, embedvars, dwvars, listvars>>
    \/ Alias /\ UNCHANGED <<canonvars, chimeravars, embedvars, dwvars, listvars>>

InitDefAlias == InitSym /\ CanonIdle /\ ChimeraIdle /\ EmbedIdle /\ DwIdle /\ ListIdle

SpecDefAlias == InitDefAlias /\ [][NextDefAlias]_vars

NextSym ==
    \/ Define /\ UNCHANGED <<canonvars, chimeravars, embedvars, dwvars, listvars>>
    \/ ResolveOrDefine /\ UNCHANGED <<canonvars, chimeravars, embedvars, dwvars, listvars>>
    \/ AliasUnrecorded /\ UNCHANGED <<canonvars, chimeravars, embedvars, dwvars, listvars>>
    \/ ReplaceAll /\ UNCHANGED <<canonvars, chimeravars, embedvars, dwvars, listvars>>

SpecSym == InitDefAlias /\ [][NextSym]_vars

NextRename ==
    \/ Define /\ UNCHANGED <<canonvars, chimeravars, embedvars, dwvars, listvars>>
    \/ AliasUnrecorded /\ UNCHANGED <<canonvars, chimeravars, embedvars, dwvars, listvars>>
    \/ ReplaceAll /\ UNCHANGED <<canonvars, chimeravars, embedvars, dwvars, listvars>>

SpecRename == InitDefAlias /\ [][NextRename]_vars

NextTable ==
    \/ TableNewSymbol /\ UNCHANGED <<canonvars, chimeravars, embedvars, dwvars, listvars>>
    \/ TableAlias /\ UNCHANGED <<canonvars, chimeravars, embedvars, dwvars, listvars>>
    \/ TableReplaceAll /\ UNCHANGED <<canonvars, chimeravars, embedvars, dwvars, listvars>>
    \/ TableOverwriteWith /\ UNCHANGED <<canonvars, chimeravars, embedvars, dwvars, listvars>>

SpecTable == InitDefAlias /\ [][NextTable]_vars

NextCanon ==
    \/ Canonicalize /\ UNCHANGED <<symvars, chimeravars, embedvars, dwvars, listvars>>
    \/ CanonicalizeAgain /\ UNCHANGED <<symvars, chimeravars, embedvars, dwvars, listvars>>

InitCanonOnly == InitSym /\ InitCanon /\ ChimeraIdle /\ EmbedIdle /\ DwIdle /\ ListIdle

SpecCanon == InitCanonOnly /\ [][NextCanon]_vars

NextChimera ==
    \/ InferTopology /\ UNCHANGED <<symvars, canonvars, embedvars, dwvars, listvars>>
    \/ NumberCouplers /\ UNCHANGED <<symvars, canonvars, embedvars, dwvars, listvars>>
    \/ Address /\ UNCHANGED <<symvars, canonvars, embedvars, dwvars, listvars>>

InitChimeraOnly == InitSym /\ CanonIdle /\ InitChimera /\ EmbedIdle /\ DwIdle /\ ListIdle

SpecChimera == InitChimeraOnly /\ [][NextChimera]_vars

NextEmbed ==
    \/ DeleteEdge /\ UNCHANGED <<symvars, canonvars, chimeravars, dwvars, listvars>>
    \/ ContractEdge /\ UNCHANGED <<symvars, canonvars, chimeravars, dwvars, listvars>>
    \/ Analyze /\ UNCHANGED <<symvars, canonvars, chimeravars, dwvars, listvars>>

InitEmbedOnly == InitSym /\ CanonIdle /\ ChimeraIdle /\ InitEmbed /\ DwIdle /\ ListIdle

SpecEmbed == InitEmbedOnly /\ [][NextEmbed]_vars

NextFilter ==
    \/ Analyze /\ UNCHANGED <<symvars, canonvars, chimeravars, dwvars, listvars>>

InitFilterOnly == InitSym /\ CanonIdle /\ ChimeraIdle /\ InitFilter /\ DwIdle /\ ListIdle

SpecFilter == InitFilterOnly /\ [][NextFilter]_vars

NextList ==
    \/ Relist /\ UNCHANGED <<symvars, canonvars, chimeravars, embedvars, dwvars>>
    \/ InferBoth /\ UNCHANGED <<symvars, canonvars, chimeravars, embedvars, dwvars>>

InitListOnly == InitSym /\ CanonIdle /\ ChimeraIdle /\ EmbedIdle /\ DwIdle /\ InitList

SpecList == InitListOnly /\ [][NextList]_vars

NextDw ==
    \/ OutputDw /\ UNCHANGED <<symvars, canonvars, chimeravars, embedvars, listvars>>

InitDwOnly == InitSym /\ CanonIdle /\ ChimeraIdle /\ EmbedIdle /\ InitDw /\ ListIdle

SpecDw == InitDwOnly /\ [][NextDw]_vars

(***************************************************************************)
(* Claims about the symbol table                                           *)
(***************************************************************************)
\* The symbols linked to a symbol of S by a chain of successful alias calls.
RECURSIVE AliasedWith(_)
AliasedWith(S) ==
    LET S2 == S \cup UNION {p \in aliased : p \cap S # {}}
    IN IF S2 = S THEN S ELSE AliasedWith(S2)

\* C1: after any sequence of successful new_symbol, symbol_to_number and
\* alias calls, two symbols that were aliased together, directly or through a
\* chain of alias calls, are both defined and to_number gives the same number.
C1_AliasTransitive ==
    \A s1 \in UNION aliased : \A s2 \in AliasedWith({s1}) :
        /\ Defined(Table, s1)
        /\ Defined(Table, s2)
        /\ to_number(Table, s1) = to_number(Table, s2)

\* Two symbols aliased only through a chain, never by one call.
C1_Witness ==
    \E s1 \in UNION aliased : \E s2 \in AliasedWith({s1}) :
        /\ s1 # s2
        /\ {s1, s2} \notin aliased
        /\ last.op = "alias"

\* The case of alias C2 is about: both symbols defined, at different numbers.
BothDefinedApart(t, sym1, sym2) ==
    /\ Defined(t, sym1)
    /\ Defined(t, sym2)
    /\ to_number(t, sym1) # to_number(t, sym2)

\* C2: alias of two symbols already defined at different numbers abends and
\* leaves sym2num, num2syms and next_sym_num as they were before the call.
C2_AliasAbortAtomic ==
    [][(last'.op = "alias" /\ BothDefinedApart(Table, last'.a[1], last'.b[1]))
         => (last'.outcome = "abend" /\ status' = "aborted" /\ Table' = Table)]_vars

\* An alias call has abended on a table that holds three symbols, two of
\* them sharing a number.
C2_Witness ==
    /\ last.op = "alias"
    /\ last.outcome = "abend"
    /\ status = "aborted"
    /\ BothDefinedApart(Table, last.a[1], last.b[1])
    /\ Cardinality(DOMAIN sym2num) = 3
    /\ Cardinality(DOMAIN num2syms) = 2

\* C3: the numbers new_symbol hands out are strictly increasing, the first
\* being 0, so a number retired by a merge is never handed out again.
C3_IndicesNeverReused ==
    [][/\ \A i \in 1..Len(last'.news) : last'.news[i] > highest
       /\ \A i, j \in 1..Len(last'.news) : i < j => last'.news[i] < last'.news[j]
       /\ (highest = -1 /\ last'.news # <<>>) => last'.news[1] = 0]_vars

\* C4: a successful replace_all is a positional rename: the sequences have
\* equal length and each after_syms[i] has the number before_syms[i] had.
C4_ReplaceAllPositional ==
    [][(last'.op = "replace_all" /\ last'.outcome = "ok")
         => /\ Len(last'.a) = Len(last'.b)
            /\ \A i \in 1..Len(last'.a) :
                   /\ Defined(Table', last'.b[i])
                   /\ to_number(Table', last'.b[i]) = to_number(Table, last'.a[i])]_vars

\* C15: a successful alias that merges two different numbers keeps the
\* lower one and returns it, removes the higher one from the table, and
\* leaves under the lower number exactly the union of the symbol sets the
\* two numbers had; a symbol the call had to define has the set of itself.
C15_AliasMergeMechanics ==
    [][LET s1 == last'.a[1]
           s2 == last'.b[1]
           n1 == IF Defined(Table, s1) THEN to_number(Table, s1) ELSE last'.news[1]
           n2 == IF Defined(Table, s2) THEN to_number(Table, s2)
                 ELSE IF s2 = s1 THEN n1 ELSE last'.news[Len(last'.news)]
           set1 == IF Defined(Table, s1) THEN num2syms[n1] ELSE {s1}
           set2 == IF Defined(Table, s2) THEN num2syms[n2] ELSE {s2}
           lo == Min({n1, n2})
           hi == Max({n1, n2})
       IN (last'.op = "alias" /\ last'.outcome = "ok" /\ n1 # n2)
              => /\ last'.ret = lo
                 /\ lo \in DOMAIN num2syms'
                 /\ hi \notin DOMAIN num2syms'
                 /\ \A s \in DOMAIN sym2num' : sym2num'[s] # hi
                 /\ num2syms'[lo] = set1 \cup set2
                 /\ \A s \in set1 \cup set2 : sym2num'[s] = lo]_vars

\* alias has merged a new symbol into a number that held two symbols: the
\* survivor holds all three, and the number handed out in the call is gone.
C15_Witness ==
    /\ last.op = "alias"
    /\ last.outcome = "ok"
    /\ Len(last.news) = 1
    /\ last.ret < last.news[1]
    /\ last.news[1] \notin DOMAIN num2syms
    /\ num2syms[last.ret] = PlainSyms

\* C16: replace_all with a before_syms that holds a symbol not defined in
\* the table, at any position, abends and leaves the table as it was.
C16_ReplaceAllAbortAtomic ==
    [][(/\ last'.op = "replace_all"
        /\ \E i \in 1..Len(last'.a) : ~Defined(Table, last'.a[i]))
           => (last'.outcome = "abend" /\ status' = "aborted" /\ Table' = Table)]_vars

\* replace_all has abended at the second symbol after the first, a defined
\* symbol with an undefined peer, was processed.
C16_Witness ==
    /\ last.op = "replace_all"
    /\ last.outcome = "abend"
    /\ status = "aborted"
    /\ Len(last.a) = 2
    /\ Len(last.b) = 2
    /\ Defined(Table, last.a[1])
    /\ ~Defined(Table, last.a[2])
    /\ ~Defined(Table, last.b[1])

\* C17: the two maps agree: s maps to n in sym2num exactly when s is in
\* num2syms[n]; every number of num2syms has a symbol; and every number in
\* use is below next_sym_num.
C17_MapsAgree ==
    /\ \A s \in DOMAIN sym2num :
           sym2num[s] \in DOMAIN num2syms /\ s \in num2syms[sym2num[s]]
    /\ \A n \in DOMAIN num2syms : \A s \in num2syms[n] :
           s \in DOMAIN sym2num /\ sym2num[s] = n
    /\ \A n \in DOMAIN num2syms : num2syms[n] # {}
    /\ \A n \in DOMAIN num2syms : n < next_sym_num
    /\ \A s \in DOMAIN sym2num : sym2num[s] < next_sym_num

\* A table no overwrite_with leaves: a number shared by two symbols, and
\* the highest number handed out retired by the merge of alias.
C17_Witness ==
    /\ status = "running"
    /\ \E n \in DOMAIN num2syms : Cardinality(num2syms[n]) = 2
    /\ next_sym_num > Max(DOMAIN num2syms) + 1

(***************************************************************************)
(* Claims about canonicalization, topology inference and coupler numbers   *)
(***************************************************************************)
\* C5: canonicalization is idempotent: canonicalizing the canonical map
\* gives the canonical map again.
C5_CanonIdempotent == cpc = "twice" => canon2 = canon1

\* The weight the input map stores under (a, b): 0 when it has no such key.
StoredWeight(s, a, b) == IF <<a, b>> \in DOMAIN s THEN s[<<a, b>>] ELSE 0

\* C12: every key (a, b) of the canonical map has a < b and holds the sum of
\* the input weights stored under (a, b) and (b, a); and every pair of
\* different qubits that has a non-zero input entry in either orientation is
\* a key of the canonical map.
C12_CanonKeysAndSums ==
    cpc \in {"once", "twice"} =>
        /\ \A k \in DOMAIN canon1 :
               /\ k[1] < k[2]
               /\ canon1[k] = StoredWeight(strs, k[1], k[2]) + StoredWeight(strs, k[2], k[1])
        /\ \A e \in DOMAIN strs :
               (e[1] # e[2] /\ strs[e] # 0)
                   => <<Min({e[1], e[2]}), Max({e[1], e[2]})>> \in DOMAIN canon1

\* A map with a self-loop and with both orientations of one pair, whose
\* weights cancel, has been canonicalized.
C12_Witness ==
    /\ cpc = "once"
    /\ \E a, b \in 0..NumQubits - 1 :
           /\ a < b
           /\ {<<a, b>>, <<b, a>>, <<b, b>>} \subseteq DOMAIN strs
           /\ strs[<<a, b>>] # 0
           /\ strs[<<b, b>>] # 0
           /\ strs[<<a, b>>] + strs[<<b, a>>] = 0
           /\ DOMAIN canon1 = {<<a, b>>}
           /\ canon1[<<a, b>>] = 0

\* C6: chimera_topology of the synthetic Chimera graph built from (L, M, N)
\* returns exactly (L, M, N).
C6_TopologyRoundTrip == topology # <<>> => topology = shape

\* The number of couplers of the Chimera graph of shape (L, M, N).
TotalCouplers(L, M, N) == L * L * M * N + (M - 1) * N * L + (N - 1) * M * L

\* C7: coupler_number gives every coupler of the synthetic graph an id, no
\* two couplers the same id, and the ids are exactly 0 .. TotalCouplers-1.
C7_CouplerIdsExact ==
    ids # <<>> =>
        /\ \A i \in 1..Len(ids) : ids[i].ok
        /\ \A i, j \in 1..Len(ids) : i # j => ids[i].id # ids[j].id
        /\ {ids[i].id : i \in 1..Len(ids)}
               = 0..TotalCouplers(shape[1], shape[2], shape[3]) - 1

\* C8: coupler_number raises IndexError for every pair of qubits that no
\* coupler joins.
C8_NonAdjacentRaises ==
    (addr.called /\ ~Adjacent(solver, addr.q1, addr.q2)) => ~addr.ok

\* C11: a run of output_dw that aborts because the topology is not known
\* and a run that aborts because a qubit pair has no coupler never end with
\* the same exit status and the same line on stderr.
C11_CausesDistinguishable ==
    \A r1 \in Runs, r2 \in Runs :
        (/\ dwres[r1].done /\ dwres[r1].cause = "NonChimera"
         /\ dwres[r2].done /\ dwres[r2].cause = "IndexError")
            => dwres[r1].out # dwres[r2].out

\* C18: chimera_topology returns the same (L, M, N) for two lists that hold
\* the same couplers in different orders, with the same num_qubits.
C18_OrderIndependent == inferred.done => inferred.first = inferred.second

(***************************************************************************)
(* Claims about the embeddability filter                                   *)
(***************************************************************************)
\* C9: maybe_embeddable of a logical edge set identical to the non-empty
\* hardware edge set reports embed = True and extras = 0.
C9_IdenticalGraphEmbeds ==
    (report.done /\ edges = adj) => (report.embed /\ report.extras = 0)

C9_Witness ==
    /\ report.done
    /\ edges = adj
    /\ Cardinality(adj) >= 8
    /\ report.nodes[1] = report.nodes[2]
    /\ report.edges[1] = report.edges[2]

\* The hardware nodes that stand for logical node n.
ChainOf(n) == {h \in DOMAIN chain : chain[h] = n}

\* The nodes of S reached from the nodes of R along hardware edges inside S.
RECURSIVE ReachIn(_, _)
ReachIn(R, S) ==
    LET R2 == R \cup {h \in S : \E e \in adj : /\ {e[1], e[2]} \subseteq S
                                              /\ {e[1], e[2]} \cap R # {}
                                              /\ h \in {e[1], e[2]}}
    IN IF R2 = R THEN R ELSE ReachIn(R2, S)

\* chain is a minor embedding of the logical graph in the hardware graph:
\* every logical node has a non-empty connected chain (chains are disjoint,
\* chain being a function), and every logical edge is carried by a hardware
\* edge between the two chains.
MinorEmbedding ==
    /\ \A n \in DOMAIN edges_to_neighbor_list(edges) :
           /\ ChainOf(n) # {}
           /\ ReachIn({CHOOSE h \in ChainOf(n) : TRUE}, ChainOf(n)) = ChainOf(n)
    /\ \A e \in edges : \E a \in adj :
           \/ (chain[a[1]] = e[1] /\ chain[a[2]] = e[2])
           \/ (chain[a[1]] = e[2] /\ chain[a[2]] = e[1])

\* C10: for a logical graph that has a minor embedding in the hardware
\* graph, maybe_embeddable reports embed = True.
C10_Conservative == (report.done /\ MinorEmbedding) => report.embed

\* An embedded logical graph with a node of more than the hardware's maximum
\* degree, whose nodes and extras use up every hardware node.
C10_Witness ==
    /\ report.done
    /\ MinorEmbedding
    /\ report.extras > 0
    /\ report.nodes[1] + report.extras = report.nodes[2]
    /\ report.embed

\* The nodes touched by the edges of E, and the degree of n in E.
NodesOf(E) == {e[1] : e \in E} \cup {e[2] : e \in E}

DegreeIn(E, n) == Cardinality({m \in NodesOf(E) : <<n, m>> \in E \/ <<m, n>> \in E})

\* The hardware's maximum degree.
MaxDegree(E) == Max({DegreeIn(E, n) : n \in NodesOf(E)})

\* ceil(d / D) for d >= 0 and D > 0: the least c with c * D >= d.
CeilDiv(d, D) == CHOOSE c \in 0..d : c * D >= d /\ (c - 1) * D < d

\* C13: extras is the sum of ceil(d / D) - 1 over exactly the logical nodes
\* whose degree d exceeds the hardware's maximum degree D.
C13_ExtrasFormula ==
    report.done =>
        LET D == MaxDegree(adj)
            over == {n \in NodesOf(edges) : DegreeIn(edges, n) > D}
        IN report.extras
               = Sum([n \in over |-> CeilDiv(DegreeIn(edges, n), D) - 1], over)

\* One node of degree 6 against a hardware of maximum degree 4: extras is 1.
C13_Witness ==
    /\ report.done
    /\ MaxDegree(adj) = 4
    /\ \E n \in NodesOf(edges) :
           /\ DegreeIn(edges, n) = 6
           /\ \A m \in NodesOf(edges) \ {n} : DegreeIn(edges, m) <= 4
    /\ report.extras = 1

\* C14: embed is False exactly when the logical nodes plus extras exceed the
\* hardware nodes or the logical edges plus extras exceed the hardware edges.
C14_EmbedDecision ==
    report.done =>
        (~report.embed <=>
            \/ Cardinality(NodesOf(edges)) + report.extras > Cardinality(NodesOf(adj))
            \/ Cardinality(edges) + report.extras > Cardinality(adj))

\* A logical graph rejected for its edges alone.
C14_Witness ==
    /\ report.done
    /\ ~report.embed
    /\ Cardinality(NodesOf(edges)) + report.extras <= Cardinality(NodesOf(adj))
    /\ Cardinality(edges) + report.extras > Cardinality(adj)

====
